---- MODULE Spec2Model ----
(***************************************************************************)
(* Construction of the interprocedural control flow graph of               *)
(* cwe_checker_rs/src/analysis/graph.rs: GraphBuilder::build in its four   *)
(* phases, and the query get_indices_of_block_nodes on the built graph.    *)
(*                                                                         *)
(* A reference &'a Term<Blk> is modelled as the position <<s, b>> of the   *)
(* block in the program tree, a reference &'a Term<Jmp> as <<s, b, k>>.    *)
(* A NodeIndex is the position of the node in the node list of the graph   *)
(* (counted from 1), as petgraph hands out indices in insertion order.     *)
(***************************************************************************)
EXTENDS Integers, Sequences, FiniteSets, TLC

VARIABLES program, extern_subs, graph, jump_targets, return_addresses, pc,
          block_tids, tid_to_indices_map

vars == <<program, extern_subs, graph, jump_targets, return_addresses, pc,
          block_tids, tid_to_indices_map>>

(***************************************************************************)
(* Bounds of the input programs.                                           *)
(***************************************************************************)
\* subroutines per program
MaxSubs == 2
\* blocks per subroutine
MaxBlocks == 2
\* jump terms per program (and so per block)
MaxJmps == 3

(***************************************************************************)
(* Terms of the program tree.                                              *)
(***************************************************************************)
SubTid(s) == <<"sub", s>>
BlkTid(s, b) == <<"blk", s, b>>
JmpTid(s, b, k) == <<"jmp", s, b, k>>
\* an identifier that names no term of any program: a library function
LibTid == <<"lib">>

Direct(tid) == <<"Direct", tid>>
Indirect == <<"Indirect">>
None == <<"None">>
IsDirect(label) == label[1] = "Direct"

\* A Jmp without its Tid.  "target" holds the label of a Goto or Return and
\* the target of a Call, "return_" the Option<Label> of a Call.
Jmp(kind, target, return_) == [kind |-> kind, target |-> target, return_ |-> return_]

\* The jumps a block is filled with.  Their labels name the first and the
\* second block of the first subroutine, the second subroutine and the
\* library function: in a program that lacks the named term they dangle.
JmpKinds ==
    {Jmp("Goto", l, None) : l \in {Direct(BlkTid(1, 1)), Indirect}}
    \cup {Jmp("Call", t, r) : t \in {Direct(SubTid(2)), Direct(LibTid)},
                               r \in {None, Direct(BlkTid(1, 2))}}
    \cup {Jmp("Call", Indirect, None)}
    \cup {Jmp("Interrupt", None, None)}
    \cup {Jmp("Return", Direct(BlkTid(1, 2)), None)}

Term(tid, jmp) == [tid |-> tid, kind |-> jmp.kind, target |-> jmp.target, return_ |-> jmp.return_]

Layouts == UNION {[1..n -> 0..MaxBlocks] : n \in 0..MaxSubs}

RECURSIVE Sum(_, _)
Sum(f, n) == IF n = 0 THEN 0 ELSE f[n] + Sum(f, n - 1)

\* the numbers of jumps of n blocks in tree order, at most MaxJmps in all
JmpCounts(n) == {lens \in [1..n -> 0..MaxJmps] : Sum(lens, n) <= MaxJmps}

\* The program with layout[s] blocks in subroutine s, lens[i] jumps in its i-th
\* block in tree order, and the jumps js in tree order.
MkProgram(layout, lens, js) ==
    [s \in 1..Len(layout) |->
        [tid |-> SubTid(s),
         blocks |-> [b \in 1..layout[s] |->
            LET i == Sum(layout, s - 1) + b
            IN [tid |-> BlkTid(s, b),
                jmps |-> [k \in 1..lens[i] |->
                             Term(JmpTid(s, b, k), js[Sum(lens, i - 1) + k])]]]]]

\* tests::mock_program, with the jump terms named by their place
mock_program ==
    <<[tid |-> SubTid(1),
       blocks |-> <<[tid |-> BlkTid(1, 1),
                     jmps |-> <<Term(JmpTid(1, 1, 1),
                                     Jmp("Call", Direct(SubTid(2)), Direct(BlkTid(1, 2))))>>],
                    [tid |-> BlkTid(1, 2),
                     jmps |-> <<Term(JmpTid(1, 2, 1),
                                     Jmp("Goto", Direct(BlkTid(1, 1)), None))>>]>>],
      [tid |-> SubTid(2),
       blocks |-> <<[tid |-> BlkTid(2, 1),
                     jmps |-> <<Term(JmpTid(2, 1, 1),
                                     Jmp("Return", Direct(BlkTid(1, 2)), None))>>]>>]>>

BlockAt(ref) == program[ref[1]].blocks[ref[2]]
JmpAt(ref) == program[ref[1]].blocks[ref[2]].jmps[ref[3]]

(***************************************************************************)
(* Nodes, edges and the builder.                                           *)
(***************************************************************************)
BlkStart(block) == [kind |-> "BlkStart", block |-> block]
BlkEnd(block) == [kind |-> "BlkEnd", block |-> block]
CallReturn(block) == [kind |-> "CallReturn", block |-> block]

get_block(node) == node.block

NoJmp == <<>>
EdgeBlock == [kind |-> "Block", jump |-> NoJmp, untaken |-> None]
EdgeJump(jump, untaken) == [kind |-> "Jump", jump |-> jump, untaken |-> untaken]
EdgeCall(jump) == [kind |-> "Call", jump |-> jump, untaken |-> None]
EdgeExternCallStub(jump) == [kind |-> "ExternCallStub", jump |-> jump, untaken |-> None]
EdgeCRCallStub == [kind |-> "CRCallStub", jump |-> NoJmp, untaken |-> None]
EdgeCRReturnStub == [kind |-> "CRReturnStub", jump |-> NoJmp, untaken |-> None]
EdgeCRCombine(jump) == [kind |-> "CRCombine", jump |-> jump, untaken |-> None]

\* Graph::add_node and Graph::add_edge of petgraph
add_node(self, weight) ==
    [self EXCEPT !.graph.nodes = Append(@, weight)]
add_edge(self, a, b, weight) ==
    [self EXCEPT !.graph.edges = Append(@, [source |-> a, target |-> b, weight |-> weight])]

\* HashMap::insert: a later insertion under the same key replaces the value
insert(map, key, value) ==
    [k \in DOMAIN map \cup {key} |-> IF k = key THEN value ELSE map[k]]

\* a failed HashMap index, unwrap or the panic! of add_outgoing_edges
Panic(self, what) == [self EXCEPT !.panic = what]

GraphBuilder_new ==
    [graph |-> [nodes |-> <<>>, edges |-> <<>>],
     jump_targets |-> <<>>,
     return_addresses |-> <<>>,
     panic |-> "none"]

\* add_block with the Block edge drawn from the end node to the start node
add_block_mutant(self, block) ==
    LET start == Len(self.graph.nodes) + 1
        end == start + 1
        s1 == add_node(add_node(self, BlkStart(block)), BlkEnd(block))
        s2 == [s1 EXCEPT !.jump_targets = insert(@, BlockAt(block).tid, <<start, end>>)]
    IN add_edge(s2, end, start, EdgeBlock)

add_block(self, block) ==
    LET start == Len(self.graph.nodes) + 1
        end == start + 1
        s1 == add_node(add_node(self, BlkStart(block)), BlkEnd(block))
        s2 == [s1 EXCEPT !.jump_targets = insert(@, BlockAt(block).tid, <<start, end>>)]
    IN add_edge(s2, start, end, EdgeBlock)

\* the blocks of the program in tree order, as references
RECURSIVE BlockRefsFrom(_)
BlockRefsFrom(s) ==
    IF s > Len(program) THEN <<>>
    ELSE [b \in 1..Len(program[s].blocks) |-> <<s, b>>] \o BlockRefsFrom(s + 1)
BlockRefs == BlockRefsFrom(1)

RECURSIVE add_program_blocks_from(_, _, _)
add_program_blocks_from(self, blocks, i) ==
    IF i > Len(blocks) THEN self
    ELSE add_program_blocks_from(add_block(self, blocks[i]), blocks, i + 1)
add_program_blocks(self) == add_program_blocks_from(self, BlockRefs, 1)

\* first_block taking the last block of the subroutine
first_block_mutant(sub) == sub.blocks[Len(sub.blocks)]

\* &sub.term.blocks[0]
first_block(sub) == sub.blocks[1]

RECURSIVE add_subs_to_jump_targets_from(_, _)
add_subs_to_jump_targets_from(self, s) ==
    IF s > Len(program) \/ self.panic # "none" THEN self
    ELSE LET sub == program[s]
         IN IF Len(sub.blocks) # 0
            THEN LET start_block == first_block(sub)
                 IN IF start_block.tid \notin DOMAIN self.jump_targets
                    THEN Panic(self, "index")
                    ELSE add_subs_to_jump_targets_from(
                             [self EXCEPT !.jump_targets =
                                 insert(@, sub.tid, self.jump_targets[start_block.tid])],
                             s + 1)
            ELSE add_subs_to_jump_targets_from(self, s + 1)
add_subs_to_jump_targets(self) == add_subs_to_jump_targets_from(self, 1)

\* push_return_address without and_modify: a later pair replaces the list
push_return_address_mutant(map, key, pair) == insert(map, key, <<pair>>)

\* Vec::push under HashMap::entry(..).and_modify(..).or_insert_with(..)
push_return_address(map, key, pair) ==
    IF key \in DOMAIN map THEN [map EXCEPT ![key] = Append(@, pair)]
    ELSE insert(map, key, <<pair>>)

\* add_goto_edge aiming at the BlkEnd node of the target
add_goto_edge_mutant(self, source, jump, untaken_conditional) ==
    LET tid == JmpAt(jump).target[2]
    IN IF tid \notin DOMAIN self.jump_targets THEN Panic(self, "index")
       ELSE add_edge(self, source, self.jump_targets[tid][2],
                     EdgeJump(jump, untaken_conditional))

\* JmpKind::Goto(Label::Direct(tid))
add_goto_edge(self, source, jump, untaken_conditional) ==
    LET tid == JmpAt(jump).target[2]
    IN IF tid \notin DOMAIN self.jump_targets THEN Panic(self, "index")
       ELSE add_edge(self, source, self.jump_targets[tid][1],
                     EdgeJump(jump, untaken_conditional))

\* add_extern_call_edge aiming at the BlkEnd node of the return label
add_extern_call_edge_mutant(self, source, jump) ==
    LET return_ == JmpAt(jump).return_
    IN IF IsDirect(return_)
       THEN IF return_[2] \notin DOMAIN self.jump_targets THEN Panic(self, "index")
            ELSE add_edge(self, source, self.jump_targets[return_[2]][2],
                          EdgeExternCallStub(jump))
       ELSE self

\* JmpKind::Call with a direct target that extern_subs contains
add_extern_call_edge(self, source, jump) ==
    LET return_ == JmpAt(jump).return_
    IN IF IsDirect(return_)
       THEN IF return_[2] \notin DOMAIN self.jump_targets THEN Panic(self, "index")
            ELSE add_edge(self, source, self.jump_targets[return_[2]][1],
                          EdgeExternCallStub(jump))
       ELSE self

\* JmpKind::Call with a direct target that extern_subs does not contain
add_call_edge(self, source, jump) ==
    LET target_tid == JmpAt(jump).target[2]
        return_ == JmpAt(jump).return_
        s1 == IF target_tid \in DOMAIN self.jump_targets
              THEN add_edge(self, source, self.jump_targets[target_tid][1], EdgeCall(jump))
              ELSE self
    IN IF IsDirect(return_)
       THEN IF return_[2] \notin DOMAIN s1.jump_targets THEN Panic(s1, "index")
            ELSE [s1 EXCEPT !.return_addresses =
                     push_return_address(@, target_tid,
                                         <<source, s1.jump_targets[return_[2]][1]>>)]
       ELSE s1

add_jump_edge(self, source, jump, untaken_conditional) ==
    LET j == JmpAt(jump)
    IN CASE j.kind = "Goto" /\ IsDirect(j.target) ->
              add_goto_edge(self, source, jump, untaken_conditional)
         [] j.kind = "Goto" /\ ~IsDirect(j.target) -> self
         [] j.kind = "Call" ->
              IF IsDirect(j.target)
              THEN IF j.target[2] \in extern_subs
                   THEN add_extern_call_edge(self, source, jump)
                   ELSE add_call_edge(self, source, jump)
              ELSE self
         [] j.kind = "Interrupt" -> self
         [] j.kind = "Return" -> self

\* add_outgoing_edges handing no untaken conditional to the second jump
add_outgoing_edges_mutant(self, node) ==
    LET block == get_block(self.graph.nodes[node])
        jumps == BlockAt(block).jmps
        ref(k) == <<block[1], block[2], k>>
    IN CASE Len(jumps) = 0 -> self
         [] Len(jumps) = 1 -> add_jump_edge(self, node, ref(1), None)
         [] Len(jumps) = 2 ->
              LET s1 == add_jump_edge(self, node, ref(1), None)
              IN IF s1.panic # "none" THEN s1
                 ELSE add_jump_edge(s1, node, ref(2), None)
         [] OTHER -> Panic(self, "more than 2 jumps")

add_outgoing_edges(self, node) ==
    LET block == get_block(self.graph.nodes[node])
        jumps == BlockAt(block).jmps
        ref(k) == <<block[1], block[2], k>>
    IN CASE Len(jumps) = 0 -> self
         [] Len(jumps) = 1 -> add_jump_edge(self, node, ref(1), None)
         [] Len(jumps) = 2 ->
              LET s1 == add_jump_edge(self, node, ref(1), None)
              IN IF s1.panic # "none" THEN s1
                 ELSE add_jump_edge(s1, node, ref(2), ref(1))
         [] OTHER -> Panic(self, "more than 2 jumps")

RECURSIVE add_jump_and_call_edges_from(_, _)
add_jump_and_call_edges_from(self, node) ==
    IF node > Len(self.graph.nodes) \/ self.panic # "none" THEN self
    ELSE IF self.graph.nodes[node].kind = "BlkEnd"
         THEN add_jump_and_call_edges_from(add_outgoing_edges(self, node), node + 1)
         ELSE add_jump_and_call_edges_from(self, node + 1)
add_jump_and_call_edges(self) == add_jump_and_call_edges_from(self, 1)

\* find_call taking the first jump of the block, whatever its kind
find_call_mutant(jmps, k) == IF Len(jmps) = 0 THEN 0 ELSE 1

\* jmps.iter().find(|jump| matches!(jump.term.kind, JmpKind::Call(_))): 0 when none
RECURSIVE find_call(_, _)
find_call(jmps, k) ==
    IF k > Len(jmps) THEN 0
    ELSE IF jmps[k].kind = "Call" THEN k ELSE find_call(jmps, k + 1)

RECURSIVE add_call_return_from(_, _, _, _)
add_call_return_from(self, pairs, i, return_source) ==
    IF i > Len(pairs) \/ self.panic # "none" THEN self
    ELSE LET call_node == pairs[i][1]
             return_to_node == pairs[i][2]
             call_block == get_block(self.graph.nodes[call_node])
             k == find_call(BlockAt(call_block).jmps, 1)
             call_term == <<call_block[1], call_block[2], k>>
             cr_combine_node == Len(self.graph.nodes) + 1
             s1 == add_node(self, CallReturn(call_block))
             s2 == add_edge(s1, call_node, cr_combine_node, EdgeCRCallStub)
             s3 == add_edge(s2, return_source, cr_combine_node, EdgeCRReturnStub)
             s4 == add_edge(s3, cr_combine_node, return_to_node, EdgeCRCombine(call_term))
         IN IF k = 0 THEN Panic(self, "unwrap")
            ELSE add_call_return_from(s4, pairs, i + 1, return_source)

add_call_return_node_and_edges(self, return_from_sub, return_source) ==
    IF return_from_sub.tid \notin DOMAIN self.return_addresses THEN self
    ELSE add_call_return_from(self, self.return_addresses[return_from_sub.tid], 1, return_source)

RECURSIVE add_return_edges_from(_, _, _)
add_return_edges_from(self, blocks, i) ==
    IF i > Len(blocks) \/ self.panic # "none" THEN self
    ELSE LET block == BlockAt(blocks[i])
             sub == program[blocks[i][1]]
         IN IF \E k \in 1..Len(block.jmps) : block.jmps[k].kind = "Return"
            THEN IF block.tid \notin DOMAIN self.jump_targets THEN Panic(self, "index")
                 ELSE add_return_edges_from(
                          add_call_return_node_and_edges(self, sub, self.jump_targets[block.tid][2]),
                          blocks, i + 1)
            ELSE add_return_edges_from(self, blocks, i + 1)
add_return_edges(self) == add_return_edges_from(self, BlockRefs, 1)

(***************************************************************************)
(* get_indices_of_block_nodes                                              *)
(***************************************************************************)
\* Graph::neighbors: the targets of the outgoing edges, the newest edge first
RECURSIVE neighbors_from(_, _, _)
neighbors_from(g, a, e) ==
    IF e = 0 THEN <<>>
    ELSE IF g.edges[e].source = a
         THEN <<g.edges[e].target>> \o neighbors_from(g, a, e - 1)
         ELSE neighbors_from(g, a, e - 1)
\* neighbors following the incoming edges
RECURSIVE neighbors_incoming_from(_, _, _)
neighbors_incoming_from(g, a, e) ==
    IF e = 0 THEN <<>>
    ELSE IF g.edges[e].target = a
         THEN <<g.edges[e].source>> \o neighbors_incoming_from(g, a, e - 1)
         ELSE neighbors_incoming_from(g, a, e - 1)
neighbors_mutant(g, a) == neighbors_incoming_from(g, a, Len(g.edges))

neighbors(g, a) == neighbors_from(g, a, Len(g.edges))

\* panic is "unwrap" when next().unwrap() finds no neighbour
RECURSIVE get_indices_from(_, _, _, _)
get_indices_from(g, tids, map, node_index) ==
    IF node_index > Len(g.nodes) THEN [map |-> map, panic |-> "none"]
    ELSE LET node == g.nodes[node_index]
             tid == BlockAt(get_block(node)).tid
         IN IF tid \in tids /\ node.kind = "BlkStart"
            THEN LET nb == neighbors(g, node_index)
                 IN IF nb = <<>> THEN [map |-> map, panic |-> "unwrap"]
                    ELSE get_indices_from(g, tids, insert(map, tid, <<node_index, nb[1]>>),
                                          node_index + 1)
            ELSE get_indices_from(g, tids, map, node_index + 1)
get_indices_of_block_nodes(g, tids) == get_indices_from(g, tids, <<>>, 1)

(***************************************************************************)
(* The build, phase by phase, and the query on its result.                 *)
(***************************************************************************)
Self ==
    [graph |-> graph, jump_targets |-> jump_targets,
     return_addresses |-> return_addresses, panic |-> "none"]

Store(self, next) ==
    /\ graph' = self.graph
    /\ jump_targets' = self.jump_targets
    /\ return_addresses' = self.return_addresses
    /\ pc' = IF self.panic = "none" THEN next ELSE self.panic
    /\ UNCHANGED <<program, extern_subs, block_tids, tid_to_indices_map>>

\* the sets of identifiers a caller asks for
QueryTids ==
    {{}, {BlkTid(1, 1)}, {BlkTid(2, 1), SubTid(1)}, {BlkTid(1, 1), BlkTid(2, 1), LibTid}}

Init ==
    /\ \E layout \in Layouts :
          \E lens \in JmpCounts(Sum(layout, Len(layout))) :
             \E js \in [1..Sum(lens, Len(lens)) -> JmpKinds] :
                program = MkProgram(layout, lens, js)
    /\ extern_subs \in {{}, {LibTid}}
    /\ graph = GraphBuilder_new.graph
    /\ jump_targets = GraphBuilder_new.jump_targets
    /\ return_addresses = GraphBuilder_new.return_addresses
    /\ pc = "new"
    /\ block_tids = {}
    /\ tid_to_indices_map = <<>>

AddProgramBlocks ==
    /\ pc = "new"
    /\ Store(add_program_blocks(Self), "blocks")

AddSubsToJumpTargets ==
    /\ pc = "blocks"
    /\ Store(add_subs_to_jump_targets(Self), "subs")

AddJumpAndCallEdges ==
    /\ pc = "subs"
    /\ Store(add_jump_and_call_edges(Self), "edges")

AddReturnEdges ==
    /\ pc = "edges"
    /\ Store(add_return_edges(Self), "built")

GetIndicesOfBlockNodes ==
    /\ pc = "built"
    /\ \E tids \in QueryTids :
          LET result == get_indices_of_block_nodes(graph, tids)
          IN /\ block_tids' = tids
             /\ tid_to_indices_map' = result.map
             /\ pc' = IF result.panic = "none" THEN "queried" ELSE "query panic"
    /\ UNCHANGED <<program, extern_subs, graph, jump_targets, return_addresses>>

Next ==
    \/ AddProgramBlocks
    \/ AddSubsToJumpTargets
    \/ AddJumpAndCallEdges
    \/ AddReturnEdges
    \/ GetIndicesOfBlockNodes

Spec == Init /\ [][Next]_vars

(***************************************************************************)
(* Vocabulary of the properties.                                           *)
(***************************************************************************)
Nodes == graph.nodes
Edges == graph.edges
NodeIds == 1..Len(Nodes)
EdgeIds == 1..Len(Edges)

AllBlocks == UNION {{<<s, b>> : b \in 1..Len(program[s].blocks)} : s \in 1..Len(program)}
AllJmps == UNION {{<<r[1], r[2], k>> : k \in 1..Len(BlockAt(r).jmps)} : r \in AllBlocks}
BlockOf(j) == <<j[1], j[2]>>
BlocksNamed(tid) == {r \in AllBlocks : BlockAt(r).tid = tid}
SubsNamed(tid) == {s \in 1..Len(program) : program[s].tid = tid}

StartNodes(r) == {n \in NodeIds : Nodes[n] = BlkStart(r)}
EndNodes(r) == {n \in NodeIds : Nodes[n] = BlkEnd(r)}
CallReturnNodes == {n \in NodeIds : Nodes[n].kind = "CallReturn"}
InEdges(n) == {i \in EdgeIds : Edges[i].target = n}
OutEdges(n) == {i \in EdgeIds : Edges[i].source = n}
EdgesOfKind(kind) == {i \in EdgeIds : Edges[i].weight.kind = kind}
HasEdge(a, b, kind) ==
    \E i \in EdgeIds :
        Edges[i].source = a /\ Edges[i].target = b /\ Edges[i].weight.kind = kind

\* get_program_cfg has returned the graph
Returned == pc \in {"built", "queried"}
\* the build has panicked
Aborted == pc \in {"index", "unwrap", "more than 2 jumps"}
TooManyJumps == \E r \in AllBlocks : Len(BlockAt(r).jmps) > 2

IsCall(j) == JmpAt(j).kind = "Call"
\* calls into the program that name a return block
InProgramCalls ==
    {c \in AllJmps : /\ IsCall(c)
                     /\ IsDirect(JmpAt(c).target)
                     /\ JmpAt(c).target[2] \notin extern_subs
                     /\ IsDirect(JmpAt(c).return_)}
ExternCalls ==
    {c \in AllJmps : /\ IsCall(c)
                     /\ IsDirect(JmpAt(c).target)
                     /\ JmpAt(c).target[2] \in extern_subs}
ReturnJmps(s) == {j \in AllJmps : j[1] = s /\ JmpAt(j).kind = "Return"}
ReturningBlocks(s) == {BlockOf(j) : j \in ReturnJmps(s)}

\* the edges add_jump_edge emits for a jump
EmittedEdges(j) ==
    {i \in EdgeIds : /\ Edges[i].weight.jump = j
                     /\ Edges[i].weight.kind \in {"Jump", "Call", "ExternCallStub"}}

\* the CallReturn nodes with exactly the three edges of a call from block cb,
\* a return from block rb and a return target block tb
CallReturnNodesFor(cb, rb, tb) ==
    {n \in CallReturnNodes :
        /\ Cardinality(InEdges(n) \cup OutEdges(n)) = 3
        /\ \E a \in EndNodes(cb) : HasEdge(a, n, "CRCallStub")
        /\ \E a \in EndNodes(rb) : HasEdge(a, n, "CRReturnStub")
        /\ \E t \in StartNodes(tb) : HasEdge(n, t, "CRCombine")}

(***************************************************************************)
(* C1: the build aborts if and only if some block has more than two jumps; *)
(* a direct label that names no block or sub does not abort it.            *)
(***************************************************************************)
C1_AbortsOnlyOnTooManyJumps ==
    /\ Aborted => TooManyJumps
    /\ TooManyJumps => pc \notin {"edges", "built", "queried"}

(***************************************************************************)
(* C4: every block has exactly one BlkStart node, exactly one BlkEnd node  *)
(* and exactly one Block edge, from that BlkStart to that BlkEnd, and      *)
(* after phase 1 the jump-target table keeps that pair for the block.      *)
(***************************************************************************)
C4_OneNodePairPerBlock ==
    pc # "new" =>
        /\ Cardinality(EdgesOfKind("Block")) = Cardinality(AllBlocks)
        /\ \A r \in AllBlocks :
            /\ Cardinality(StartNodes(r)) = 1
            /\ Cardinality(EndNodes(r)) = 1
            /\ \A s \in StartNodes(r) : \A e \in EndNodes(r) :
                /\ Cardinality({i \in EdgesOfKind("Block") :
                                   {Edges[i].source, Edges[i].target} \cap {s, e} # {}}) = 1
                /\ HasEdge(s, e, "Block")
                /\ BlockAt(r).tid \in DOMAIN jump_targets
                /\ jump_targets[BlockAt(r).tid] = <<s, e>>

C4_Witness ==
    /\ pc = "built"
    /\ Cardinality(AllBlocks) >= 3
    /\ CallReturnNodes # {}

(***************************************************************************)
(* C2, as claimed: for every call into the program with a direct target    *)
(* and a direct return label, and every Return jump of the callee, exactly *)
(* one CallReturn node has exactly the three edges CRCallStub from the     *)
(* callsite's BlkEnd, CRReturnStub from the returning block's BlkEnd and   *)
(* CRCombine to the BlkStart of the block the return label names.          *)
(***************************************************************************)
C2_ExactlyOneCallReturnNode ==
    Returned =>
        \A c \in InProgramCalls : \A s \in SubsNamed(JmpAt(c).target[2]) :
            \A j \in ReturnJmps(s) :
                /\ BlocksNamed(JmpAt(c).return_[2]) # {}
                /\ \A tb \in BlocksNamed(JmpAt(c).return_[2]) :
                      Cardinality(CallReturnNodesFor(BlockOf(c), BlockOf(j), tb)) = 1

\* the calls of the block of c with the target and the return label of c
SameCalls(c) ==
    {d \in InProgramCalls : /\ BlockOf(d) = BlockOf(c)
                            /\ JmpAt(d).target = JmpAt(c).target
                            /\ JmpAt(d).return_ = JmpAt(c).return_}

(***************************************************************************)
(* C2, amended: there are exactly as many such CallReturn nodes as the     *)
(* callsite block has call jumps with that target and that return label:   *)
(* one for each of them, so exactly one when the call is the only one.     *)
(***************************************************************************)
C2_OneCallReturnNodePerCall ==
    Returned =>
        \A c \in InProgramCalls : \A s \in SubsNamed(JmpAt(c).target[2]) :
            \A j \in ReturnJmps(s) :
                /\ BlocksNamed(JmpAt(c).return_[2]) # {}
                /\ \A tb \in BlocksNamed(JmpAt(c).return_[2]) :
                      Cardinality(CallReturnNodesFor(BlockOf(c), BlockOf(j), tb))
                          = Cardinality(SameCalls(c))

C2_Witness ==
    /\ Returned
    /\ \E c \in InProgramCalls : \E s \in SubsNamed(JmpAt(c).target[2]) :
          \E j \in ReturnJmps(s) :
             /\ SameCalls(c) = {c}
             /\ BlockOf(j) # BlockOf(c)
             /\ Cardinality(CallReturnNodesFor(BlockOf(c), BlockOf(j), <<1, 2>>)) = 1

\* no Call edge and no CRCallStub edge leaves the BlkEnd of block cb, and no
\* CallReturn node carries cb
NoCallMachinery(cb) ==
    /\ \A a \in EndNodes(cb) : \A i \in OutEdges(a) :
          Edges[i].weight.kind \notin {"Call", "CRCallStub"}
    /\ \A n \in CallReturnNodes : get_block(Nodes[n]) # cb

\* the one edge emitted for the external call c is an ExternCallStub edge
\* from the BlkEnd of its block to the BlkStart of its return label
OneExternCallStub(c) ==
    /\ Cardinality(EmittedEdges(c)) = 1
    /\ \A i \in EmittedEdges(c) :
          /\ Edges[i].weight = EdgeExternCallStub(c)
          /\ Edges[i].source \in EndNodes(BlockOf(c))
          /\ \E tb \in BlocksNamed(JmpAt(c).return_[2]) : Edges[i].target \in StartNodes(tb)

(***************************************************************************)
(* C3, as claimed: a call to an external identifier with a direct return   *)
(* label produces exactly one ExternCallStub edge, from the callsite's     *)
(* BlkEnd to the return label's BlkStart, and the callsite's BlkEnd has no *)
(* Call edge, no CRCallStub edge and no CallReturn node; an external call  *)
(* with no return label produces no edge.                                  *)
(***************************************************************************)
C3_ExternCallNoCallMachinery ==
    Returned =>
        \A c \in ExternCalls :
            IF IsDirect(JmpAt(c).return_)
            THEN OneExternCallStub(c) /\ NoCallMachinery(BlockOf(c))
            ELSE EmittedEdges(c) = {}

(***************************************************************************)
(* C3, amended: the ExternCallStub edge is as claimed; the callsite's      *)
(* BlkEnd has no Call edge, no CRCallStub edge and no CallReturn node      *)
(* provided the callsite block holds no call jump whose direct target is   *)
(* not external; an external call with no return label produces no edge.   *)
(***************************************************************************)
C3_ExternCallStub ==
    Returned =>
        \A c \in ExternCalls :
            IF IsDirect(JmpAt(c).return_)
            THEN /\ OneExternCallStub(c)
                 /\ (\A d \in AllJmps :
                        BlockOf(d) = BlockOf(c) /\ IsCall(d) /\ IsDirect(JmpAt(d).target)
                            => d \in ExternCalls)
                    => NoCallMachinery(BlockOf(c))
            ELSE EmittedEdges(c) = {}

C3_Witness ==
    /\ Returned
    /\ \E c \in ExternCalls :
          /\ IsDirect(JmpAt(c).return_)
          /\ EmittedEdges(c) # {}
          /\ NoCallMachinery(BlockOf(c))
    /\ CallReturnNodes # {}

(***************************************************************************)
(* C5, as claimed: in a block with exactly two jumps the edge emitted for  *)
(* the second jump carries the first jump as its untaken sibling and the   *)
(* edge emitted for the first jump carries none; the edge of the jump of a *)
(* block with exactly one jump carries none.                               *)
(***************************************************************************)
C5_SecondEdgeCarriesFirstJump ==
    pc \in {"edges", "built", "queried"} =>
        \A r \in AllBlocks :
            LET n == Len(BlockAt(r).jmps)
                j(k) == <<r[1], r[2], k>>
            IN /\ n = 2 =>
                    /\ \A i \in EmittedEdges(j(2)) : Edges[i].weight.untaken = j(1)
                    /\ \A i \in EmittedEdges(j(1)) : Edges[i].weight.untaken = None
               /\ n = 1 => \A i \in EmittedEdges(j(1)) : Edges[i].weight.untaken = None

(***************************************************************************)
(* C5, amended: in a block with exactly two jumps whose second jump is a   *)
(* direct Goto, the Jump edge emitted for it carries the first jump as its *)
(* untaken sibling; a Call or ExternCallStub edge carries no sibling, nor  *)
(* does the edge of a first or of an only jump.                            *)
(***************************************************************************)
C5_SecondJumpEdgeCarriesFirstJump ==
    pc \in {"edges", "built", "queried"} =>
        \A r \in AllBlocks :
            LET n == Len(BlockAt(r).jmps)
                j(k) == <<r[1], r[2], k>>
            IN /\ n = 2 =>
                    /\ JmpAt(j(2)).kind = "Goto" /\ IsDirect(JmpAt(j(2)).target)
                          => Cardinality(EmittedEdges(j(2))) = 1
                    /\ \A i \in EmittedEdges(j(2)) :
                          Edges[i].weight.untaken =
                              IF Edges[i].weight.kind = "Jump" THEN j(1) ELSE None
                    /\ \A i \in EmittedEdges(j(1)) : Edges[i].weight.untaken = None
               /\ n = 1 => \A i \in EmittedEdges(j(1)) : Edges[i].weight.untaken = None

C5_Witness ==
    /\ pc = "built"
    /\ \E r \in AllBlocks :
          /\ Len(BlockAt(r).jmps) = 2
          /\ \E i \in EmittedEdges(<<r[1], r[2], 2>>) :
                Edges[i].weight = EdgeJump(<<r[1], r[2], 2>>, <<r[1], r[2], 1>>)
          /\ EmittedEdges(<<r[1], r[2], 1>>) # {}
    /\ \E r \in AllBlocks :
          Len(BlockAt(r).jmps) = 1 /\ EmittedEdges(<<r[1], r[2], 1>>) # {}

\* the pairs recorded under an identifier
ReturnAddresses(tid) ==
    IF tid \in DOMAIN return_addresses THEN return_addresses[tid] ELSE <<>>

\* the CallReturn nodes whose CRReturnStub edge leaves a block of subroutine s
Contributed(s) ==
    {n \in CallReturnNodes :
        \E i \in InEdges(n) : /\ Edges[i].weight.kind = "CRReturnStub"
                              /\ get_block(Nodes[Edges[i].source])[1] = s}

RECURSIVE SumOfProducts(_)
SumOfProducts(s) ==
    IF s = 0 THEN 0
    ELSE Cardinality(ReturnJmps(s)) * Len(ReturnAddresses(program[s].tid))
            + SumOfProducts(s - 1)

(***************************************************************************)
(* C6: a subroutine with N Return jumps and M recorded pairs contributes   *)
(* exactly N * M CallReturn nodes, and the graph has the sum of N * M over *)
(* all subroutines.                                                        *)
(***************************************************************************)
C6_ReturnJumpsTimesCallers ==
    Returned =>
        /\ \A s \in 1..Len(program) :
              Cardinality(Contributed(s))
                  = Cardinality(ReturnJmps(s)) * Len(ReturnAddresses(program[s].tid))
        /\ Cardinality(CallReturnNodes) = SumOfProducts(Len(program))

(***************************************************************************)
(* C7: from the end of phase 2 on, the jump-target table maps the          *)
(* identifier of a subroutine with blocks to the node pair of its first    *)
(* block and has no entry for a subroutine without blocks; a Call edge     *)
(* whose target is a subroutine identifier ends at the BlkStart of the     *)
(* first block of that subroutine.                                         *)
(***************************************************************************)
C7_SubResolvesToFirstBlock ==
    pc \notin {"new", "blocks"} =>
        /\ \A s \in 1..Len(program) :
              IF Len(program[s].blocks) > 0
              THEN /\ program[s].tid \in DOMAIN jump_targets
                   /\ jump_targets[program[s].tid] = jump_targets[program[s].blocks[1].tid]
                   /\ jump_targets[program[s].tid][1] \in StartNodes(<<s, 1>>)
                   /\ jump_targets[program[s].tid][2] \in EndNodes(<<s, 1>>)
              ELSE program[s].tid \notin DOMAIN jump_targets
        /\ \A i \in EdgesOfKind("Call") :
              \A s \in SubsNamed(JmpAt(Edges[i].weight.jump).target[2]) :
                  Edges[i].target \in StartNodes(<<s, 1>>)

C7_Witness ==
    /\ pc = "built"
    /\ Len(program) = 2
    /\ Len(program[1].blocks) = 0
    /\ Len(program[2].blocks) = 2
    /\ \E i \in EdgesOfKind("Call") : Edges[i].source \in EndNodes(<<2, 2>>)

(***************************************************************************)
(* C8: the graph of the two-subroutine program of the test has 7 nodes, 6  *)
(* block nodes and 1 CallReturn, and 8 edges: 3 Block, 1 Call from         *)
(* sub1_blk1 to sub2_blk1, 1 Jump from sub1_blk2 to sub1_blk1, 1           *)
(* CRCallStub, 1 CRReturnStub and 1 CRCombine.                             *)
(***************************************************************************)
C8_MockProgramGraph ==
    program = mock_program /\ extern_subs = {} /\ Returned =>
        /\ Len(Nodes) = 7
        /\ Cardinality(CallReturnNodes) = 1
        /\ Cardinality(NodeIds \ CallReturnNodes) = 6
        /\ Len(Edges) = 8
        /\ Cardinality(EdgesOfKind("Block")) = 3
        /\ Cardinality(EdgesOfKind("Call")) = 1
        /\ Cardinality(EdgesOfKind("Jump")) = 1
        /\ Cardinality(EdgesOfKind("CRCallStub")) = 1
        /\ Cardinality(EdgesOfKind("CRReturnStub")) = 1
        /\ Cardinality(EdgesOfKind("CRCombine")) = 1
        /\ \E a \in EndNodes(<<1, 1>>) : \E b \in StartNodes(<<2, 1>>) : HasEdge(a, b, "Call")
        /\ \E a \in EndNodes(<<1, 2>>) : \E b \in StartNodes(<<1, 1>>) : HasEdge(a, b, "Jump")

C8_Witness ==
    program = mock_program /\ extern_subs = {} /\ pc = "built"

(***************************************************************************)
(* C9: get_indices_of_block_nodes returns a map whose keys are exactly the *)
(* requested identifiers that are blocks of the graph and that maps each   *)
(* to the BlkStart node and the BlkEnd node of that block; every BlkStart  *)
(* node has exactly one outgoing edge, the Block edge to its own BlkEnd.   *)
(***************************************************************************)
C9_IndicesOfBlockNodes ==
    /\ Returned =>
          \A r \in AllBlocks : \A s \in StartNodes(r) :
              /\ Cardinality(OutEdges(s)) = 1
              /\ \A i \in OutEdges(s) :
                    Edges[i].weight = EdgeBlock /\ Edges[i].target \in EndNodes(r)
    /\ pc # "query panic"
    /\ pc = "queried" =>
          /\ DOMAIN tid_to_indices_map = {t \in block_tids : BlocksNamed(t) # {}}
          /\ \A t \in DOMAIN tid_to_indices_map : \E r \in BlocksNamed(t) :
                /\ tid_to_indices_map[t][1] \in StartNodes(r)
                /\ tid_to_indices_map[t][2] \in EndNodes(r)

C9_Witness ==
    /\ pc = "queried"
    /\ block_tids = {BlkTid(1, 1), BlkTid(2, 1), LibTid}
    /\ DOMAIN tid_to_indices_map = {BlkTid(1, 1), BlkTid(2, 1)}
    /\ \E n \in CallReturnNodes : get_block(Nodes[n]) = <<1, 1>>
    /\ \E a \in StartNodes(<<1, 1>>) : InEdges(a) # {}

\* the CRCombine edges built from the pair that the call c recorded, if they
\* carry c: they leave a CallReturn node that the BlkEnd of the block of c
\* reaches by a CRCallStub edge
CombineEdgesTagged(c) ==
    {i \in EdgesOfKind("CRCombine") :
        /\ Edges[i].weight.jump = c
        /\ \E a \in EndNodes(BlockOf(c)) : HasEdge(a, Edges[i].source, "CRCallStub")}

\* every CallReturn node carries the block whose BlkEnd its CRCallStub leaves
CallReturnCarriesCallsite ==
    \A n \in CallReturnNodes :
        /\ \E i \in InEdges(n) : Edges[i].weight.kind = "CRCallStub"
        /\ \A i \in InEdges(n) :
              Edges[i].weight.kind = "CRCallStub"
                  => Nodes[Edges[i].source] = BlkEnd(get_block(Nodes[n]))

\* one CRCombine edge carrying c for each returning block of the callee of c
TaggedWithRecordingCall(c) ==
    \A s \in SubsNamed(JmpAt(c).target[2]) :
        Cardinality(CombineEdgesTagged(c)) = Cardinality(ReturningBlocks(s))

(***************************************************************************)
(* C10, as claimed: every CRCombine edge carries the call jump whose       *)
(* processing recorded the pair it was built from, and its CallReturn node *)
(* carries the callsite block, also when both jumps of the callsite block  *)
(* are calls.                                                              *)
(***************************************************************************)
C10_CombineCarriesRecordingCall ==
    Returned =>
        /\ CallReturnCarriesCallsite
        /\ \A c \in InProgramCalls : TaggedWithRecordingCall(c)

(***************************************************************************)
(* C10, amended: every CRCombine edge carries the first call jump of the   *)
(* callsite block, which is the call jump that recorded the pair whenever  *)
(* the callsite block holds one call jump only; its CallReturn node        *)
(* carries the callsite block.                                             *)
(***************************************************************************)
C10_CombineCarriesFirstCall ==
    Returned =>
        /\ CallReturnCarriesCallsite
        /\ \A i \in EdgesOfKind("CRCombine") :
              LET cb == get_block(Nodes[Edges[i].source])
                  c == Edges[i].weight.jump
              IN /\ Nodes[Edges[i].source].kind = "CallReturn"
                 /\ BlockOf(c) = cb
                 /\ IsCall(c)
                 /\ \A k \in 1..(c[3] - 1) : ~IsCall(<<cb[1], cb[2], k>>)
        /\ \A c \in InProgramCalls :
              (\A d \in AllJmps : BlockOf(d) = BlockOf(c) /\ IsCall(d) => d = c)
                  => TaggedWithRecordingCall(c)

C10_Witness ==
    /\ Returned
    /\ \E i \in EdgesOfKind("CRCombine") :
          /\ Edges[i].weight.jump[3] = 2
          /\ \E j \in EdgesOfKind("CRReturnStub") :
                /\ Edges[j].target = Edges[i].source
                /\ get_block(Nodes[Edges[j].source]) # get_block(Nodes[Edges[i].source])

====
